---- MODULE Spec2Model ----
(***************************************************************************)
(* Model of the two programs of the repository:                            *)
(*   calculate_thickness.py              calculate_shielding               *)
(*   spacecraft_trajectory_propagator.py the two trajectory exporters and  *)
(*                                       the entry point that runs them    *)
(* Text is a sequence of one-character strings.  A float is a decimal      *)
(* value m * 10^e in canonical form, or nan, or a signed infinity.         *)
(***************************************************************************)
EXTENDS Integers, Sequences, FiniteSets, TLC

VARIABLES
    \* ---- calculate_shielding ----
    file_exists,            \* whether open(data_file) finds the file
    lines,                  \* f.readlines()
    mission_duration_days,  \* the argument
    pc,                     \* position in calculate_shielding
    i,                      \* number of lines the parse loop has consumed
    valid_rows,             \* [energy, flux] rows appended so far
    data,                   \* DataFrame with the ElectronFluence column
    target_data,            \* filtered frame with shielding and thickness
    max_hazard_energy,
    design_thickness,
    final_thickness,
    plot_saved,             \* shielding_result.png written
    result,                 \* value returned to the caller
    outcome,                \* diagnostic printed when the run ends
    \* ---- trajectory exporters ----
    results,                \* state_history: sequence of [t, s]
    ephem,                  \* which ephemeris the oracle answers from
    mpc,                    \* position in __main__ and the running exporter
    times_downsampled,
    states_downsampled,
    ei,                     \* loop index of the running exporter
    data_lines,             \* SPENVIS lines built in memory
    spenvis_file,           \* content of spenvis_upload_optimized.txt
    oem_file,               \* content of ganymede_orbiter_safe.oem
    queries,                \* oracle queries of the running exporter
    error                   \* exception that ended the process, if any

shield_vars == <<file_exists, lines, mission_duration_days, pc, i, valid_rows,
                 data, target_data, max_hazard_energy, design_thickness,
                 final_thickness, plot_saved, result, outcome>>
traj_vars == <<results, ephem, mpc, times_downsampled, states_downsampled, ei,
               data_lines, spenvis_file, oem_file, queries, error>>
vars == <<shield_vars, traj_vars>>

\* a local not yet assigned is None; once assigned v it is Some(v)
None == <<>>
Some(v) == <<v>>
Val(x) == x[1]

\* ------------------------------------------------------------------ bounds
MaxLines == 2       \* lines of an enumerated input file
MaxPoints == 61     \* points of a propagated state history

\* ------------------------------------------------------- float arithmetic
RECURSIVE Pow10(_)
Pow10(n) == IF n = 0 THEN 1 ELSE 10 * Pow10(n - 1)

Sgn(x) == IF x > 0 THEN 1 ELSE IF x < 0 THEN -1 ELSE 0

RECURSIVE Norm(_, _)
Norm(m, e) ==
    IF m = 0 THEN [k |-> "fin", m |-> 0, e |-> 0]
    ELSE IF m % 10 = 0 THEN Norm(m \div 10, e + 1)
    ELSE [k |-> "fin", m |-> m, e |-> e]

NaN == [k |-> "nan", m |-> 0, e |-> 0]
Inf(s) == [k |-> "inf", m |-> s, e |-> 0]

\* sign of ma * 10^s - mb, for s >= 0, without forming the product
CmpShift(ma, s, mb) ==
    IF s > 9 THEN (IF ma # 0 THEN Sgn(ma) ELSE Sgn(0 - mb))
    ELSE LET p == Pow10(s)
             q == mb \div p
             r == mb % p
         IN  IF ma > q THEN 1
             ELSE IF ma < q THEN -1
             ELSE IF r = 0 THEN 0 ELSE -1

FinCmp(a, b) ==
    IF a.e >= b.e THEN CmpShift(a.m, a.e - b.e, b.m)
    ELSE 0 - CmpShift(b.m, b.e - a.e, a.m)

Cmp(a, b) ==
    IF a.k = "inf" /\ b.k = "inf" THEN Sgn(a.m - b.m)
    ELSE IF a.k = "inf" THEN a.m
    ELSE IF b.k = "inf" THEN 0 - b.m
    ELSE FinCmp(a, b)

\* IEEE comparisons: every comparison with nan is false
FLt(a, b) == a.k # "nan" /\ b.k # "nan" /\ Cmp(a, b) < 0
FGt(a, b) == a.k # "nan" /\ b.k # "nan" /\ Cmp(a, b) > 0
FGe(a, b) == a.k # "nan" /\ b.k # "nan" /\ Cmp(a, b) >= 0
FEq(a, b) == a.k # "nan" /\ b.k # "nan" /\ Cmp(a, b) = 0

FromInt(n) == Norm(n, 0)

\* a * b
FMul(a, b) ==
    IF a.k = "nan" \/ b.k = "nan" THEN NaN
    ELSE IF a.k = "inf" \/ b.k = "inf"
    THEN (IF Sgn(a.m) * Sgn(b.m) = 0 THEN NaN ELSE Inf(Sgn(a.m) * Sgn(b.m)))
    ELSE Norm(a.m * b.m, a.e + b.e)

\* a - b
FSub(a, b) ==
    IF a.k = "nan" \/ b.k = "nan" THEN NaN
    ELSE IF a.k = "inf" /\ b.k = "inf"
    THEN (IF a.m = b.m THEN NaN ELSE Inf(a.m))
    ELSE IF a.k = "inf" THEN a
    ELSE IF b.k = "inf" THEN Inf(0 - b.m)
    ELSE LET lo == IF a.e < b.e THEN a.e ELSE b.e
         IN  Norm(a.m * Pow10(a.e - lo) - b.m * Pow10(b.e - lo), lo)

\* --------------------------------------------------------------- float()
Digits == {"0", "1", "2", "3", "4", "5", "6", "7", "8", "9"}

DigitVal(c) ==
    CASE c = "0" -> 0 [] c = "1" -> 1 [] c = "2" -> 2 [] c = "3" -> 3
      [] c = "4" -> 4 [] c = "5" -> 5 [] c = "6" -> 6 [] c = "7" -> 7
      [] c = "8" -> 8 [] c = "9" -> 9

RECURSIVE DigitRun(_)
DigitRun(s) ==
    IF s = <<>> \/ Head(s) \notin Digits THEN 0 ELSE 1 + DigitRun(Tail(s))

RECURSIVE DigitsValue(_)
DigitsValue(s) ==
    IF s = <<>> THEN 0
    ELSE DigitsValue(SubSeq(s, 1, Len(s) - 1)) * 10 + DigitVal(s[Len(s)])

ValueError == [ok |-> FALSE, v |-> NaN]
Parsed(v) == [ok |-> TRUE, v |-> v]

ParseDecimal(sgn, body) ==
    LET ni == DigitRun(body)
        intd == SubSeq(body, 1, ni)
        r1 == SubSeq(body, ni + 1, Len(body))
        hasDot == r1 # <<>> /\ Head(r1) = "."
        r2 == IF hasDot THEN Tail(r1) ELSE r1
        nf == IF hasDot THEN DigitRun(r2) ELSE 0
        fracd == SubSeq(r2, 1, nf)
        r3 == SubSeq(r2, nf + 1, Len(r2))
        hasExp == r3 # <<>> /\ Head(r3) \in {"e", "E"}
        r4 == IF hasExp THEN Tail(r3) ELSE r3
        esigned == hasExp /\ r4 # <<>> /\ Head(r4) \in {"+", "-"}
        esgn == IF esigned /\ Head(r4) = "-" THEN -1 ELSE 1
        r5 == IF esigned THEN Tail(r4) ELSE r4
        ne == IF hasExp THEN DigitRun(r5) ELSE 0
        expd == SubSeq(r5, 1, ne)
        rest == SubSeq(r5, ne + 1, Len(r5))
        wellFormed == ni + nf >= 1 /\ (hasExp => ne >= 1) /\ rest = <<>>
    IN  IF wellFormed
        THEN Parsed(Norm(sgn * DigitsValue(intd \o fracd),
                         esgn * DigitsValue(expd) - nf))
        ELSE ValueError

\* float(tok) of a token without whitespace
ParseFloat(tok) ==
    LET signed == tok # <<>> /\ Head(tok) \in {"+", "-"}
        sgn == IF signed /\ Head(tok) = "-" THEN -1 ELSE 1
        body == IF signed THEN Tail(tok) ELSE tok
    IN  IF body = <<"n", "a", "n">> THEN Parsed(NaN)
        ELSE IF body \in {<<"i", "n", "f">>,
                          <<"i", "n", "f", "i", "n", "i", "t", "y">>}
        THEN Parsed(Inf(sgn))
        ELSE ParseDecimal(sgn, body)

\* ---------------------------------------------------- strip and re.split
Whitespace == {" ", "\t", "\n"}
Delimiters == Whitespace \cup {","}

RECURSIVE LStrip(_)
LStrip(s) ==
    IF s # <<>> /\ Head(s) \in Whitespace THEN LStrip(Tail(s)) ELSE s

RECURSIVE RStrip(_)
RStrip(s) ==
    IF s # <<>> /\ s[Len(s)] \in Whitespace
    THEN RStrip(SubSeq(s, 1, Len(s) - 1)) ELSE s

Strip(s) == RStrip(LStrip(s))

\* re.split(r'[,\s]+', s): the pieces between maximal runs of delimiters,
\* an empty piece where s starts or ends with a run
RECURSIVE SplitFrom(_, _, _)
SplitFrom(s, cur, out) ==
    IF s = <<>> THEN Append(out, cur)
    ELSE IF Head(s) \in Delimiters
    THEN LET rest == Tail(s)
         IN  IF rest # <<>> /\ Head(rest) \in Delimiters
             THEN SplitFrom(rest, cur, out)
             ELSE SplitFrom(rest, <<>>, Append(out, cur))
    ELSE SplitFrom(Tail(s), Append(cur, Head(s)), out)

ReSplit(s) == SplitFrom(s, <<>>, <<>>)

NonEmpty(p) == p # <<>>

\* parts = [p for p in re.split(...) if p]
Parts(line) == SelectSeq(ReSplit(Strip(line)), NonEmpty)

\* ------------------------------------------------ the inputs enumerated
LineBoundary == <<"0", ".", "0", "4", " ", "3", "8", "6", "\n">>
LineBelow == <<"0", ".", "0", "3", ",", "1", "e", "9", "\n">>
LineHigh == <<"2", ".", "5", "\t", "3", "8", "5", "\n">>
LineExtra == <<"1", ",", " ", "1", "e", "9", " ", "7", "\n">>
LineNegative == <<"-", "1", " ", "-", "4", "0", "0", "\n">>
LineHeader == <<"E", " ", "(", "M", "e", "V", ")", "\n">>
LineSingle == <<"5", "\n">>
LineBlank == <<"\n">>
LineHalf == <<"5", " ", "x", "\n">>
LineLeadComma == <<",", "3", " ", "4", "0", "0">>
LineNan == <<"n", "a", "n", " ", "9", "\n">>
LineInfFlux == <<"9", " ", "i", "n", "f", "\n">>
LineInfEnergy == <<"i", "n", "f", " ", "4", "0", "0", "\n">>

Lines == {LineBoundary, LineBelow, LineHigh, LineExtra, LineNegative,
          LineHeader, LineSingle, LineBlank, LineHalf, LineLeadComma,
          LineNan, LineInfFlux, LineInfEnergy}

\* a table export as SPENVIS writes it: two numeric rows among eight others
TenLineFile == <<LineHeader, LineBlank, LineSingle, LineBoundary, LineHalf,
                 LineHeader, LineHigh, LineBlank, LineHeader, LineSingle>>

RECURSIVE SeqsUpTo(_, _)
SeqsUpTo(S, n) ==
    IF n = 0 THEN {<<>>}
    ELSE LET shorter == SeqsUpTo(S, n - 1)
         IN  shorter \cup {Append(f, x) : f \in shorter, x \in S}

Files == SeqsUpTo(Lines, MaxLines) \cup {TenLineFile}

DefaultDays == 30
Durations == {0 - DefaultDays, 0, 1, DefaultDays}

\* --------------------------------------------------- calculate_shielding
\* the body of the parse loop for one line: the rows after it
NeedThree(parts) == Len(parts) >= 3
NeedTwo(parts) == Len(parts) >= 2

ParseLine(rows, line) ==
    LET parts == Parts(line)
    IN  IF NeedTwo(parts)
        THEN LET energy == ParseFloat(parts[1])
                 flux_electron == ParseFloat(parts[2])
             IN  IF energy.ok /\ flux_electron.ok
                 THEN Append(rows, <<energy.v, flux_electron.v>>)
                 ELSE rows
        ELSE rows

SecondsInMission(days) == days * 24 * 3600

Fluence(flux, days) == FMul(flux, FromInt(SecondsInMission(days)))

WithFluence(rows, days) ==
    [r \in 1..Len(rows) |->
        [Energy_MeV |-> rows[r][1], ElectronFlux |-> rows[r][2],
         ElectronFluence |-> Fluence(rows[r][2], days)]]

EnergyCutoff == Norm(4, -2)
AboveCutoff(row) == FGt(row.Energy_MeV, EnergyCutoff)
PhysicsRelevant(row) == FGe(row.Energy_MeV, EnergyCutoff)

\* 0.412 * E^(1.265 - 0.0954 ln E) on the energies below 2.5 MeV that the
\* enumerated lines hold, to six decimals
RangeLow(e) ==
    CASE e = Norm(4, -2) -> Norm(2614, -6)
      [] e = Norm(5, -2) -> Norm(3956, -6)
      [] e = Norm(5, -1) -> Norm(163753, -6)
      [] e = Norm(1, 0) -> Norm(412, -3)
      [] e = Norm(2, 0) -> Norm(945789, -6)

Weber(e_mev) ==
    IF FLt(e_mev, Norm(25, -1))
    THEN (IF FGt(e_mev, Norm(0, 0)) THEN RangeLow(e_mev) ELSE Norm(0, 0))
    ELSE FSub(FMul(Norm(530, -3), e_mev), Norm(106, -3))

\* (r / 2.70) * 10.0, to six decimals
AlThickness(r) ==
    IF r.k # "fin" THEN r
    ELSE Norm((r.m * Pow10(r.e + 6) * 100) \div 27, -6)

WithShielding(rows) ==
    [r \in 1..Len(rows) |->
        [Energy_MeV |-> rows[r].Energy_MeV,
         ElectronFlux |-> rows[r].ElectronFlux,
         ElectronFluence |-> rows[r].ElectronFluence,
         Shielding_g_cm2 |-> Weber(rows[r].Energy_MeV),
         Al_Thickness_mm |-> AlThickness(Weber(rows[r].Energy_MeV))]]

HazardThreshold == Norm(1, 9)
Hazardous(row) == FGt(row.ElectronFluence, HazardThreshold)

FirstEnergy(rows) == rows[1].Energy_MeV
RECURSIVE MaxEnergy(_)
MaxEnergy(rows) ==
    IF Len(rows) = 1 THEN rows[1].Energy_MeV
    ELSE LET rest == MaxEnergy(Tail(rows))
         IN  IF FGe(rows[1].Energy_MeV, rest) THEN rows[1].Energy_MeV ELSE rest

\* hazardous[hazardous.Energy == e].Al_Thickness_mm.values[0]
RECURSIVE ThicknessAt(_, _)
ThicknessAt(rows, e) ==
    IF FEq(rows[1].Energy_MeV, e) THEN rows[1].Al_Thickness_mm
    ELSE ThicknessAt(Tail(rows), e)

SafetyFactor == Norm(12, -1)
WithMargin(t) == FMul(t, SafetyFactor)

NeverEmpty(rows) == FALSE
NoRows(rows) == rows = <<>>

TrajIdle ==
    /\ results = <<>>
    /\ ephem = 0
    /\ mpc = "idle"
    /\ times_downsampled = <<>>
    /\ states_downsampled = <<>>
    /\ ei = 0
    /\ data_lines = <<>>
    /\ spenvis_file = None
    /\ oem_file = None
    /\ queries = <<>>
    /\ error = None

InitShielding ==
    /\ TrajIdle
    /\ file_exists \in BOOLEAN
    /\ lines \in (IF file_exists THEN Files ELSE {<<>>})
    /\ mission_duration_days \in Durations
    /\ pc = "open"
    /\ i = 0
    /\ valid_rows = <<>>
    /\ data = None
    /\ target_data = None
    /\ max_hazard_energy = None
    /\ design_thickness = None
    /\ final_thickness = None
    /\ plot_saved = FALSE
    /\ result = "pending"
    /\ outcome = "running"

\* lines 13-17 and 45-48: open and read the file, or report it missing
OpenFile ==
    /\ pc = "open"
    /\ IF file_exists
       THEN /\ pc' = "parse"
            /\ UNCHANGED <<result, outcome>>
       ELSE /\ pc' = "done"
            /\ result' = "0.0"
            /\ outcome' = "FileNotFound"
    /\ UNCHANGED <<file_exists, lines, mission_duration_days, i, valid_rows,
                   data, target_data, max_hazard_energy, design_thickness,
                   final_thickness, plot_saved>>
    /\ UNCHANGED traj_vars

\* lines 19-37: one iteration of the parse loop
ParseStep ==
    /\ pc = "parse"
    /\ i < Len(lines)
    /\ valid_rows' = ParseLine(valid_rows, lines[i + 1])
    /\ i' = i + 1
    /\ UNCHANGED <<file_exists, lines, mission_duration_days, pc, data,
                   target_data, max_hazard_energy, design_thickness,
                   final_thickness, plot_saved, result, outcome>>
    /\ UNCHANGED traj_vars

\* lines 39-43: after the loop
CheckRows ==
    /\ pc = "parse"
    /\ i = Len(lines)
    /\ IF NoRows(valid_rows)
       THEN /\ pc' = "done"
            /\ result' = "0.0"
            /\ outcome' = "NoData"
       ELSE /\ pc' = "fluence"
            /\ UNCHANGED <<result, outcome>>
    /\ UNCHANGED <<file_exists, lines, mission_duration_days, i, valid_rows,
                   data, target_data, max_hazard_energy, design_thickness,
                   final_thickness, plot_saved>>
    /\ UNCHANGED traj_vars

\* lines 51-56
ComputeFluence ==
    /\ pc = "fluence"
    /\ data' = Some(WithFluence(valid_rows, mission_duration_days))
    /\ pc' = "shielding"
    /\ UNCHANGED <<file_exists, lines, mission_duration_days, i, valid_rows,
                   target_data, max_hazard_energy, design_thickness,
                   final_thickness, plot_saved, result, outcome>>
    /\ UNCHANGED traj_vars

\* lines 59-80
ComputeShielding ==
    /\ pc = "shielding"
    /\ target_data' =
           Some(WithShielding(SelectSeq(Val(data), PhysicsRelevant)))
    /\ pc' = "hazard"
    /\ UNCHANGED <<file_exists, lines, mission_duration_days, i, valid_rows,
                   data, max_hazard_energy, design_thickness,
                   final_thickness, plot_saved, result, outcome>>
    /\ UNCHANGED traj_vars

\* lines 85-94
SelectHazard ==
    /\ pc = "hazard"
    /\ LET hazardous_energies == SelectSeq(Val(target_data), Hazardous)
       IN  IF hazardous_energies # <<>>
           THEN /\ max_hazard_energy' = Some(MaxEnergy(hazardous_energies))
                /\ design_thickness' =
                       Some(ThicknessAt(hazardous_energies,
                                        MaxEnergy(hazardous_energies)))
           ELSE /\ max_hazard_energy' = Some(Norm(5, -1))
                /\ design_thickness' = Some(Norm(2, 0))
    /\ pc' = "margin"
    /\ UNCHANGED <<file_exists, lines, mission_duration_days, i, valid_rows,
                   data, target_data, final_thickness, plot_saved, result,
                   outcome>>
    /\ UNCHANGED traj_vars

\* line 97
ApplyMargin ==
    /\ pc = "margin"
    /\ final_thickness' = Some(WithMargin(Val(design_thickness)))
    /\ pc' = "plot"
    /\ UNCHANGED <<file_exists, lines, mission_duration_days, i, valid_rows,
                   data, target_data, max_hazard_energy, design_thickness,
                   plot_saved, result, outcome>>
    /\ UNCHANGED traj_vars

\* lines 104-113: the plot is saved and the function falls off its end
SavePlot ==
    /\ pc = "plot"
    /\ plot_saved' = TRUE
    /\ result' = "None"
    /\ outcome' = "PlotSaved"
    /\ pc' = "done"
    /\ UNCHANGED <<file_exists, lines, mission_duration_days, i, valid_rows,
                   data, target_data, max_hazard_energy, design_thickness,
                   final_thickness>>
    /\ UNCHANGED traj_vars

NextShielding ==
    \/ OpenFile
    \/ ParseStep
    \/ CheckRows
    \/ ComputeFluence
    \/ ComputeShielding
    \/ SelectHazard
    \/ ApplyMargin
    \/ SavePlot

SpecShielding == InitShielding /\ [][NextShielding]_vars

\* ------------------------------------------------- trajectory exporters
GlobalFrameOrientation == "ECLIPJ2000"
SimulationStartEpoch == 757382400       \* 24.0 * constants.JULIAN_YEAR
TimeStep == 10
SpenvisStride == 6
OemStride == 30

StateSeeds == {1, -2}
EphemSeeds == {1, 3}

\* the state the propagation holds at its j-th step, metres and metres/s,
\* spacecraft relative to Ganymede
ScState(seed, j) == [c \in 1..6 |-> seed * 1000 * c + j * (c + 1)]

StateHistory(n, seed) ==
    [j \in 1..n |-> [t |-> SimulationStartEpoch + TimeStep * (j - 1),
                     s |-> ScState(seed, j - 1)]]

\* spice.get_body_cartesian_state_at_epoch: the state of target relative to
\* observer in the frame asked for; the two frames differ by a rotation
\* about x, so the y and z components differ
Ephemeris(e, target, observer, frame, t) ==
    [c \in 1..6 |->
        LET v == e * 10000 * c + ((t - SimulationStartEpoch) \div TimeStep) * c
        IN  IF frame = "J2000" \/ c \in {1, 4} THEN v ELSE v + 7 * c]

OracleCall(t) ==
    [target |-> "Ganymede", observer |-> "Jupiter", frame |-> "J2000",
     aberration |-> "None", epoch |-> t]

Answer(e, q) == Ephemeris(e, q.target, q.observer, q.frame, q.epoch)

\* seq[::step]
RECURSIVE DropTail(_, _)
DropTail(seq, step) ==
    IF Len(seq) < step THEN <<>>
    ELSE <<Head(seq)>> \o DropTail(SubSeq(seq, step + 1, Len(seq)), step)

RECURSIVE Stride(_, _)
Stride(seq, step) ==
    IF seq = <<>> THEN <<>>
    ELSE <<Head(seq)>> \o Stride(SubSeq(seq, step + 1, Len(seq)), step)

Times(h) == [j \in 1..Len(h) |-> h[j].t]
States(h) == [j \in 1..Len(h) |-> h[j].s]

\* (a + b) / 1000.0 printed with d >= 3 decimals, as the count of units of
\* the last decimal: whole metres are whole multiples of 10^(3-d) km
PrimaryOnly(sc, gan, c, decimals) == gan[c] * Pow10(decimals - 3)
KmField(sc, gan, c, decimals) == (sc[c] + gan[c]) * Pow10(decimals - 3)

\* 2451545.0 + epoch / 86400.0, as whole days and seconds of the day
JulianDate(epoch_seconds) ==
    [day |-> 2451545 + epoch_seconds \div 86400,
     sod |-> epoch_seconds % 86400]

\* datetime(2000, 1, 1, 12) + timedelta(seconds), as days since 2000-01-01
\* and seconds of the day
UtcStamp(epoch_seconds) ==
    [day |-> (epoch_seconds + 43200) \div 86400,
     sod |-> (epoch_seconds + 43200) % 86400]

SpenvisLine(epoch_seconds, sc, gan) ==
    [jd |-> JulianDate(epoch_seconds),
     x |-> KmField(sc, gan, 1, 6),
     y |-> KmField(sc, gan, 2, 6),
     z |-> KmField(sc, gan, 3, 6)]

OemLine(epoch_seconds, sc, gan) ==
    [t |-> UtcStamp(epoch_seconds),
     x |-> KmField(sc, gan, 1, 5),
     y |-> KmField(sc, gan, 2, 5),
     z |-> KmField(sc, gan, 3, 5),
     vx |-> KmField(sc, gan, 4, 6),
     vy |-> KmField(sc, gan, 5, 6),
     vz |-> KmField(sc, gan, 6, 6)]

SpenvisHeader ==
    <<"******************************************************************",
      "* Optimized Ganymede Orbiter Trajectory (60s step)",
      "******************************************************************",
      "Title: Ganymede Orbiter Analysis",
      "Planet: Jupiter",
      "Coordinates: PEI",
      "Columns: JDCT, X, Y, Z",
      "Format: CSV",
      "******************************************************************",
      "$$BEGIN">>

OemHeader ==
    <<"CCSDS_OEM_VERS = 2.0", "CREATION_DATE", "ORIGINATOR     = TUDAT_PYTHON",
      "", "META_START", "OBJECT_NAME          = GANYMEDE_ORBITER",
      "OBJECT_ID            = 999", "CENTER_NAME          = JUPITER",
      "REF_FRAME            = EME2000", "TIME_SYSTEM          = UTC">>

ShieldIdle ==
    /\ file_exists = FALSE
    /\ lines = <<>>
    /\ mission_duration_days = DefaultDays
    /\ pc = "idle"
    /\ i = 0
    /\ valid_rows = <<>>
    /\ data = None
    /\ target_data = None
    /\ max_hazard_energy = None
    /\ design_thickness = None
    /\ final_thickness = None
    /\ plot_saved = FALSE
    /\ result = "pending"
    /\ outcome = "running"

InitTrajectory ==
    /\ ShieldIdle
    /\ results = <<>>
    /\ ephem \in EphemSeeds
    /\ mpc = "main"
    /\ times_downsampled = <<>>
    /\ states_downsampled = <<>>
    /\ ei = 0
    /\ data_lines = <<>>
    /\ spenvis_file = None
    /\ oem_file = None
    /\ queries = <<>>
    /\ error = None

\* line 304: results = run_ganymede_simulation()
RunSimulation ==
    /\ mpc = "main"
    /\ \E n \in 1..MaxPoints, seed \in StateSeeds :
          results' = StateHistory(n, seed)
    /\ mpc' = "spenvis"
    /\ UNCHANGED <<ephem, times_downsampled, states_downsampled, ei,
                   data_lines, spenvis_file, oem_file, queries, error>>
    /\ UNCHANGED shield_vars

\* lines 164-174
SpenvisDownsample ==
    /\ mpc = "spenvis"
    /\ times_downsampled' = Stride(Times(results), SpenvisStride)
    /\ states_downsampled' = Stride(States(results), SpenvisStride)
    /\ data_lines' = <<>>
    /\ ei' = 0
    /\ queries' = <<>>
    /\ mpc' = "spenvis_loop"
    /\ UNCHANGED <<results, ephem, spenvis_file, oem_file, error>>
    /\ UNCHANGED shield_vars

\* lines 176-198: one iteration, the oracle answering
SpenvisRow ==
    /\ mpc = "spenvis_loop"
    /\ ei < Len(times_downsampled)
    /\ LET epoch_seconds == times_downsampled[ei + 1]
           state_sc_wrt_gan == states_downsampled[ei + 1]
           state_gan_wrt_jup == Answer(ephem, OracleCall(epoch_seconds))
       IN  /\ queries' = Append(queries, OracleCall(epoch_seconds))
           /\ data_lines' =
                 Append(data_lines,
                        SpenvisLine(epoch_seconds, state_sc_wrt_gan,
                                    state_gan_wrt_jup))
    /\ ei' = ei + 1
    /\ UNCHANGED <<results, ephem, mpc, times_downsampled,
                   states_downsampled, spenvis_file, oem_file, error>>
    /\ UNCHANGED shield_vars

\* lines 183-189: the oracle raises; nothing in the exporter or in
\* __main__ catches it
SpenvisOracleFails ==
    /\ mpc = "spenvis_loop"
    /\ ei < Len(times_downsampled)
    /\ queries' = Append(queries, OracleCall(times_downsampled[ei + 1]))
    /\ error' = Some(<<"export_results_for_spenvis", "oracle">>)
    /\ mpc' = "terminated"
    /\ UNCHANGED <<results, ephem, times_downsampled, states_downsampled, ei,
                   data_lines, spenvis_file, oem_file>>
    /\ UNCHANGED shield_vars

\* lines 201-217
SpenvisWrite ==
    /\ mpc = "spenvis_loop"
    /\ ei = Len(times_downsampled)
    /\ spenvis_file' = Some([header |-> SpenvisHeader, rows |-> data_lines,
                             footer |-> <<"$$END">>])
    /\ mpc' = "oem"
    /\ UNCHANGED <<results, ephem, times_downsampled, states_downsampled, ei,
                   data_lines, oem_file, queries, error>>
    /\ UNCHANGED shield_vars

\* line 201: open() raises
SpenvisWriteFails ==
    /\ mpc = "spenvis_loop"
    /\ ei = Len(times_downsampled)
    /\ error' = Some(<<"export_results_for_spenvis", "write">>)
    /\ mpc' = "terminated"
    /\ UNCHANGED <<results, ephem, times_downsampled, states_downsampled, ei,
                   data_lines, spenvis_file, oem_file, queries>>
    /\ UNCHANGED shield_vars

\* lines 240-249
OemDownsample ==
    /\ mpc = "oem"
    /\ times_downsampled' = Stride(Times(results), OemStride)
    /\ states_downsampled' = Stride(States(results), OemStride)
    /\ ei' = 0
    /\ queries' = <<>>
    /\ mpc' = "oem_open"
    /\ UNCHANGED <<results, ephem, data_lines, spenvis_file, oem_file, error>>
    /\ UNCHANGED shield_vars

\* lines 251-271: the file is opened and the header and metadata written
OemOpen ==
    /\ mpc = "oem_open"
    /\ oem_file' =
          Some([header |-> OemHeader,
                start_time |-> UtcStamp(times_downsampled[1]),
                stop_time |-> UtcStamp(times_downsampled[Len(times_downsampled)]),
                rows |-> <<>>])
    /\ mpc' = "oem_loop"
    /\ UNCHANGED <<results, ephem, times_downsampled, states_downsampled, ei,
                   data_lines, spenvis_file, queries, error>>
    /\ UNCHANGED shield_vars

\* line 251: open() raises
OemOpenFails ==
    /\ mpc = "oem_open"
    /\ error' = Some(<<"export_to_ccsds_oem", "write">>)
    /\ mpc' = "terminated"
    /\ UNCHANGED <<results, ephem, times_downsampled, states_downsampled, ei,
                   data_lines, spenvis_file, oem_file, queries>>
    /\ UNCHANGED shield_vars

\* lines 274-299: one iteration, the oracle answering and the line written
OemRow ==
    /\ mpc = "oem_loop"
    /\ ei < Len(times_downsampled)
    /\ LET epoch_seconds == times_downsampled[ei + 1]
           state_sc_wrt_gan == states_downsampled[ei + 1]
           state_gan_wrt_jup == Answer(ephem, OracleCall(epoch_seconds))
       IN  /\ queries' = Append(queries, OracleCall(epoch_seconds))
           /\ oem_file' =
                 Some([Val(oem_file) EXCEPT
                         !.rows = Append(@, OemLine(epoch_seconds,
                                                    state_sc_wrt_gan,
                                                    state_gan_wrt_jup))])
    /\ ei' = ei + 1
    /\ UNCHANGED <<results, ephem, mpc, times_downsampled,
                   states_downsampled, data_lines, spenvis_file, error>>
    /\ UNCHANGED shield_vars

\* lines 278-299: the oracle or the write raises inside the loop; the file
\* keeps what was written before
OemRowFails ==
    /\ mpc = "oem_loop"
    /\ ei < Len(times_downsampled)
    /\ \E what \in {"oracle", "write"} :
          error' = Some(<<"export_to_ccsds_oem", what>>)
    /\ queries' = Append(queries, OracleCall(times_downsampled[ei + 1]))
    /\ mpc' = "terminated"
    /\ UNCHANGED <<results, ephem, times_downsampled, states_downsampled, ei,
                   data_lines, spenvis_file, oem_file>>
    /\ UNCHANGED shield_vars

\* line 301: the loop is over, the file closed, the program ends
OemDone ==
    /\ mpc = "oem_loop"
    /\ ei = Len(times_downsampled)
    /\ mpc' = "exit"
    /\ UNCHANGED <<results, ephem, times_downsampled, states_downsampled, ei,
                   data_lines, spenvis_file, oem_file, queries, error>>
    /\ UNCHANGED shield_vars

NextTrajectory ==
    \/ RunSimulation
    \/ SpenvisDownsample
    \/ SpenvisRow
    \/ SpenvisOracleFails
    \/ SpenvisWrite
    \/ SpenvisWriteFails
    \/ OemDownsample
    \/ OemOpen
    \/ OemOpenFails
    \/ OemRow
    \/ OemRowFails
    \/ OemDone

SpecTrajectory == InitTrajectory /\ [][NextTrajectory]_vars

\* ------------------------------------------------ claims: shielding
\* the maximal runs of characters that are neither a comma nor whitespace
TokenStarts(line) ==
    {a \in 1..Len(line) :
        line[a] \notin Delimiters /\ (a = 1 \/ line[a - 1] \in Delimiters)}

TokenEnd(line, a) ==
    CHOOSE b \in a..Len(line) :
        /\ \A j \in a..b : line[j] \notin Delimiters
        /\ (b = Len(line) \/ line[b + 1] \in Delimiters)

Least(S) == CHOOSE a \in S : \A b \in S : a <= b

FirstToken(line) ==
    LET a == Least(TokenStarts(line)) IN SubSeq(line, a, TokenEnd(line, a))

SecondToken(line) ==
    LET S == TokenStarts(line)
        a == Least(S \ {Least(S)})
    IN  SubSeq(line, a, TokenEnd(line, a))

IsNumericRow(line) ==
    /\ Cardinality(TokenStarts(line)) >= 2
    /\ ParseFloat(FirstToken(line)).ok
    /\ ParseFloat(SecondToken(line)).ok

RECURSIVE ExpectedRows(_)
ExpectedRows(ls) ==
    IF ls = <<>> THEN <<>>
    ELSE IF IsNumericRow(Head(ls))
    THEN <<<<ParseFloat(FirstToken(Head(ls))).v,
             ParseFloat(SecondToken(Head(ls))).v>>>>
         \o ExpectedRows(Tail(ls))
    ELSE ExpectedRows(Tail(ls))

\* C1: the rows parsed so far are, in file order, one (energy, flux) pair
\* for each line read whose first two tokens both parse as floats and none
\* for any other line; a skipped line ends nothing; the ten-line file with
\* two numeric rows yields two records
C1_ParserYieldsNumericRows ==
    /\ valid_rows = ExpectedRows(SubSeq(lines, 1, i))
    /\ (pc = "parse" => outcome = "running" /\ result = "pending")
    /\ (lines = TenLineFile /\ i = Len(lines) => Len(valid_rows) = 2)

C1_Witness ==
    /\ lines = TenLineFile
    /\ i = 10
    /\ valid_rows = <<<<Norm(4, -2), Norm(386, 0)>>,
                      <<Norm(25, -1), Norm(385, 0)>>>>

\* the retained records whose fluence exceeds 1e9, by position in valid_rows
HazardRows ==
    {r \in 1..Len(valid_rows) :
        /\ FGe(valid_rows[r][1], Norm(4, -2))
        /\ FGt(FMul(valid_rows[r][2],
                    FromInt(mission_duration_days * 86400)), Norm(1, 9))}

\* C2: the raw design thickness is the thickness of a record of maximum
\* energy among the retained records with fluence > 1e9; with none it is
\* 2.0 mm, the hazard energy reported is 0.5 MeV; the final thickness is
\* the raw one times 1.2, so 2.4 mm in the fallback
C2_DesignThickness ==
    /\ design_thickness # None =>
          IF HazardRows # {}
          THEN \E r \in HazardRows :
                  /\ \A q \in HazardRows :
                        FGe(valid_rows[r][1], valid_rows[q][1])
                  /\ max_hazard_energy = Some(valid_rows[r][1])
                  /\ design_thickness =
                        Some(AlThickness(Weber(valid_rows[r][1])))
          ELSE /\ design_thickness = Some(Norm(2, 0))
               /\ max_hazard_energy = Some(Norm(5, -1))
    /\ final_thickness # None =>
          /\ final_thickness =
                Some(FMul(Val(design_thickness), Norm(12, -1)))
          /\ (HazardRows = {} => final_thickness = Some(Norm(24, -1)))
    /\ (pc = "done" /\ outcome = "PlotSaved" => final_thickness # None)

\* a lower-energy hazardous record before a higher-energy hazardous one,
\* and a run that took the fallback
C2_Witness ==
    /\ pc = "done"
    /\ lines = <<LineBoundary, LineLeadComma>>
    /\ mission_duration_days = 30
    /\ design_thickness = Some(Norm(5496296, -6))
    /\ final_thickness = Some(Norm(65955552, -7))

\* C3: a missing file, or a file none of whose lines yields a record, ends
\* the run with the zero result and the matching diagnostic, and nothing is
\* computed or written: no fluence, no design thickness, no plot
C3_ErrorsLeaveNoOutput ==
    (~file_exists \/ (pc # "open" /\ i = Len(lines) /\ valid_rows = <<>>)) =>
        /\ pc \in {"open", "parse", "done"}
        /\ data = None
        /\ target_data = None
        /\ max_hazard_energy = None
        /\ design_thickness = None
        /\ final_thickness = None
        /\ ~plot_saved
        /\ (pc = "done" =>
               /\ result = "0.0"
               /\ outcome = IF file_exists THEN "NoData" ELSE "FileNotFound")

C3_Witness ==
    /\ pc = "done"
    /\ file_exists
    /\ lines = <<LineHeader, LineHalf>>
    /\ outcome = "NoData"
    /\ result = "0.0"

\* C4: a mission duration <= 0 is rejected before any fluence is computed
C4_NonPositiveDurationRejected ==
    mission_duration_days <= 0 =>
        /\ data = None
        /\ design_thickness = None
        /\ final_thickness = None

Count(rows, e, f) ==
    Cardinality({r \in 1..Len(rows) :
                    rows[r].Energy_MeV = e /\ rows[r].ElectronFlux = f})

C9_EnergiesNonNegative ==
    \A r \in 1..Len(valid_rows) : ~FLt(valid_rows[r][1], Norm(0, 0))

\* ------------------------------------------------ claims: trajectory
\* the stride of the exporter that produced the current downsampled series
StrideInForce ==
    CASE mpc \in {"spenvis_loop", "oem"} -> 6
      [] mpc \in {"oem_open", "oem_loop", "exit"} -> 30
      [] mpc = "terminated" ->
            IF Val(error)[1] = "export_results_for_spenvis" THEN 6 ELSE 30

CeilDiv(n, d) == (n + d - 1) \div d

\* C5: with stride 6 (SPENVIS) or 30 (OEM) the retained epochs and states
\* of a series of length N are its elements at indices 0, k, 2k, ... in
\* order, ceil(N/k) of them, none repeated, and the i-th retained state is
\* the state of the i-th retained epoch
C5_FixedStrideDownsampling ==
    mpc \notin {"main", "spenvis"} =>
        LET kk == StrideInForce
            cnt == CeilDiv(Len(results), kk)
        IN  /\ Len(times_downsampled) = cnt
            /\ Len(states_downsampled) = cnt
            /\ \A j \in 1..cnt :
                  /\ times_downsampled[j] = results[(j - 1) * kk + 1].t
                  /\ states_downsampled[j] = results[(j - 1) * kk + 1].s
            /\ \A a, b \in 1..cnt :
                  a < b => times_downsampled[a] < times_downsampled[b]

C5_Witness ==
    /\ mpc = "oem_loop"
    /\ Len(results) = 61
    /\ times_downsampled = <<SimulationStartEpoch, SimulationStartEpoch + 300,
                             SimulationStartEpoch + 600>>
    /\ states_downsampled[3] = results[61].s

\* the primary body's state the oracle gives at the epoch of retained row j
PrimaryAt(j, kk) ==
    Ephemeris(ephem, "Ganymede", "Jupiter", "J2000", results[(j - 1) * kk + 1].t)

\* C6: each line emitted for a retained epoch t holds, per component, the
\* sum of the spacecraft state at t and of the oracle's answer for t,
\* metres turned into kilometres (a sum of s metres is printed as s * 1000
\* units of 1e-6 km, s * 100 units of 1e-5 km); the OEM lines hold the
\* velocity composed the same way; a finished export has a line for every
\* retained epoch
C6_FrameComposition ==
    /\ mpc \in {"spenvis_loop", "oem"} \/
       (mpc = "terminated" /\ Val(error)[1] = "export_results_for_spenvis") =>
          \A j \in 1..Len(data_lines) :
             LET sc == results[(j - 1) * 6 + 1].s
                 gan == PrimaryAt(j, 6)
             IN  /\ queries[j].epoch = results[(j - 1) * 6 + 1].t
                 /\ data_lines[j].x = (sc[1] + gan[1]) * 1000
                 /\ data_lines[j].y = (sc[2] + gan[2]) * 1000
                 /\ data_lines[j].z = (sc[3] + gan[3]) * 1000
    /\ spenvis_file # None =>
          /\ Val(spenvis_file).rows = data_lines
          /\ Len(data_lines) = CeilDiv(Len(results), 6)
    /\ oem_file # None =>
          \A j \in 1..Len(Val(oem_file).rows) :
             LET sc == results[(j - 1) * 30 + 1].s
                 gan == PrimaryAt(j, 30)
                 row == Val(oem_file).rows[j]
             IN  /\ queries[j].epoch = results[(j - 1) * 30 + 1].t
                 /\ row.x = (sc[1] + gan[1]) * 100
                 /\ row.y = (sc[2] + gan[2]) * 100
                 /\ row.z = (sc[3] + gan[3]) * 100
                 /\ row.vx = (sc[4] + gan[4]) * 1000
                 /\ row.vy = (sc[5] + gan[5]) * 1000
                 /\ row.vz = (sc[6] + gan[6]) * 1000
    /\ mpc = "exit" =>
          Len(Val(oem_file).rows) = CeilDiv(Len(results), 30)

\* (1000, 2000, 3000) m composed with (10000, 20000, 30000) m is written
\* as 11, 22 and 33 km by both exporters
C6_Witness ==
    /\ mpc = "exit"
    /\ results[1].s[1] = 1000 /\ results[1].s[2] = 2000
    /\ results[1].s[3] = 3000
    /\ PrimaryAt(1, 6)[1] = 10000 /\ PrimaryAt(1, 6)[2] = 20000
    /\ PrimaryAt(1, 6)[3] = 30000
    /\ Val(spenvis_file).rows[1].x = 11000000
    /\ Val(spenvis_file).rows[1].y = 22000000
    /\ Val(spenvis_file).rows[1].z = 33000000
    /\ Val(oem_file).rows[1].x = 1100000
    /\ Val(oem_file).rows[1].y = 2200000
    /\ Val(oem_file).rows[1].z = 3300000
    /\ Val(oem_file).rows[1].vx = 44000000
    /\ Len(Val(oem_file).rows) = 3

\* C7: an error inside one export leaves the other export to run and to
\* write its own file
C7_FailedExportSparesTheOther ==
    mpc = "terminated" =>
        /\ Val(error)[1] = "export_results_for_spenvis" => oem_file # None
        /\ Val(error)[1] = "export_to_ccsds_oem" => spenvis_file # None

\* C10: the frame asked of the oracle is the frame orientation the
\* propagated state is expressed in
C10_SameFrameOrientation ==
    \A q \in 1..Len(queries) : queries[q].frame = GlobalFrameOrientation

====
